---- MODULE Spec2Model ----
(***************************************************************************)
(* EVC Hybrid Chat v3: the state engine (evc_engine.py), its scorers       *)
(* (utils.py, reflection.py), the backend client (core_llm.py), the chat   *)
(* turn handler (web.py), the dual-AI conversation (enhanced_dual_ai.py,   *)
(* selfplay_streamlit.py) and the conversation stores                      *)
(* (ai_chat_complete.py, enhanced_dual_ai.py, memory.py).                  *)
(*                                                                         *)
(* Numbers.  Python floats are modelled in fixed point: the integer n      *)
(* stands for n / SC.  Products and quotients are rounded to the nearest   *)
(* unit.                                                                   *)
(* Texts.  A text is a sequence of symbols; a symbol stands for a run of   *)
(* characters (its Width).  "sp" is a blank, "bul" the two characters      *)
(* "- ", "par" the two characters "\n\n", "WARN" the marker prefix.        *)
(***************************************************************************)
EXTENDS Integers, Sequences, FiniteSets, TLC

\* ------------------------------------------------------------ arithmetic
SC == 100 * 100

Max(a, b) == IF a >= b THEN a ELSE b
Min(a, b) == IF a <= b THEN a ELSE b
Abs(a) == IF a >= 0 THEN a ELSE 0 - a

\* a / b rounded to the nearest integer (b > 0)
RDiv(a, b) == (2 * a + b) \div (2 * b)

\* the product of two fixed-point numbers
Mul(a, b) == RDiv(a * b, SC)

\* a clamp that forgets the upper bound
clamp_low_only(v, lo, hi) == Max(lo, v)

\* utils.clamp: max(lo, min(hi, v))
clamp(v, lo, hi) == Max(lo, Min(hi, v))

\* ------------------------------------------------------------------ texts
\* number of characters a symbol stands for
Width(s) ==
    CASE s \in {"bul", "par", "WARN", "dee", "mai"} -> 2
      [] s \in {"maak", "yae"} -> 3
      [] s \in {"duan", "reng"} -> 4
      [] s = "thx" -> 6
      [] s \in {"w3", "LLM", "(A)", "(B)"} -> 3
      [] s = "w9" -> 9
      [] s = "w18" -> 18
      [] s = "w23" -> 23
      [] s = "w24" -> 24
      [] s = "w60" -> 60
      [] s = "w19" -> 19
      [] s = "w20" -> 20
      [] s = "w22" -> 22
      [] s = "w300" -> 300
      [] s = "w800" -> 800
      [] OTHER -> 1

RECURSIVE CharLen(_)
\* len(text): the number of characters of a text
CharLen(t) == IF t = <<>> THEN 0 ELSE Width(Head(t)) + CharLen(Tail(t))

\* w in t: w occurs in t as a contiguous run
Contains(t, w) ==
    \E i \in 0..(Len(t) - Len(w)) : SubSeq(t, i + 1, i + Len(w)) = w

\* str.lower(): the modelled alphabet has one cased symbol
LowerSym(s) == IF s = "OK" THEN "ok" ELSE s
Lower(t) == [i \in 1..Len(t) |-> LowerSym(t[i])]

\* str.startswith(prefix)
StartsWith(t, w) == Len(t) >= Len(w) /\ SubSeq(t, 1, Len(w)) = w

\* ---------------------------------------------------------- utils.py
\* a sub-lexicon of the word sets, keeping their overlaps ("yae" is part of
\* "yae maak", "duan" of "reng duan", "dee" of "dee maak" and "mai dee")
POS_WORDS == {<<"dee", "maak">>, <<"thx">>}
NEG_WORDS == {<<"yae">>, <<"yae", "maak">>, <<"mai", "dee">>}
VOL_WORDS == {<<"duan">>, <<"reng", "duan">>, <<"wikrit">>, <<"swing">>}

CountIn(words, t) == Cardinality({w \in words : Contains(t, w)})

\* a sentiment that is the clipped difference of the counts, not their ratio
simple_sentiment_difference(text) ==
    LET t == Lower(text)
        pos == CountIn(POS_WORDS, t)
        neg == CountIn(NEG_WORDS, t)
    IN  Max(0 - SC, Min(SC, (pos - neg) * SC))

simple_sentiment(text) ==
    LET t == Lower(text)
        pos == CountIn(POS_WORDS, t)
        neg == CountIn(NEG_WORDS, t)
    IN  IF pos = 0 /\ neg = 0 THEN 0
        ELSE LET score == RDiv((pos - neg) * SC, Max(1, pos + neg))
             IN  Max(0 - SC, Min(SC, score))

volatility_hint(text) ==
    LET t == Lower(text)
        vol == CountIn(VOL_WORDS, t)
    IN  Min(SC, RDiv(vol * SC, 3))

\* ------------------------------------------------------ evc_engine.py
\* configuration documents (the evc section), all keys present; K_low and
\* K_high are a K range the document declares, keys EVCEngine.__init__ does
\* not read
Cfg(ei, lo, hi, oh, fe, cm) ==
    [E_init |-> ei, loss |-> 200, K |-> 4500, clamp_low |-> lo, clamp_high |-> hi,
     overheat_threshold |-> oh, fear_threshold |-> fe, cooldown_margin |-> cm,
     K_low |-> 2500, K_high |-> 7500]

DefaultCfg == Cfg(5000, 0, 15000, 11000, 2500, 500)

\* E_init 1.17, 0.22, 0.52, 0.62, 0.42 are one decay step (loss 0.02) above
\* 1.15, 0.20, 0.50, 0.60, 0.40
Configs ==
    { DefaultCfg,
      Cfg(15000, 0, 15000, 11000, 2500, 500),  \* starts at E_hi
      Cfg(0, 0, 15000, 11000, 2500, 500),      \* starts at E_lo
      Cfg(6000, 4000, 7000, 6500, 4800, 1500), \* narrow clamp, overlapping ranges
      Cfg(11700, 0, 15000, 11000, 2500, 500),
      Cfg(2200, 0, 15000, 11000, 2500, 500),
      Cfg(5200, 0, 15000, 11000, 2500, 500),
      Cfg(6200, 0, 15000, 11000, 2500, 500),
      Cfg(4200, 0, 15000, 11000, 2500, 500),
      Cfg(5000, 5000, 15000, 11000, 2500, 500), \* E_lo is the neutral point
      [DefaultCfg EXCEPT !.K_high = 4500] }    \* declares a K range of its own

\* EVCEngine.__init__
EVCEngine(c) == [E |-> c.E_init, K |-> c.K, stability |-> 5000]

\* the rules of _phase with the cooldown test moved to the front
phase_cooldown_first(E, c) ==
    IF Abs(E - 5000) <= c.cooldown_margin THEN "cooldown"
    ELSE IF E >= c.overheat_threshold THEN "overheat"
    ELSE IF E <= c.fear_threshold THEN "fear"
    ELSE IF E > 5500 THEN "focus"
    ELSE "calm"

\* EVCEngine._phase, as a function of E and the thresholds
phase(E, c) ==
    IF E >= c.overheat_threshold THEN "overheat"
    ELSE IF E <= c.fear_threshold THEN "fear"
    ELSE IF Abs(E - 5000) <= c.cooldown_margin THEN "cooldown"
    ELSE IF E > 5500 THEN "focus"
    ELSE "calm"

\* update_from_text reporting the applied change of E instead of the delta
update_from_text_applied_delta(e, c, user_text) ==
    LET sent == simple_sentiment(user_text)
        vol == volatility_hint(user_text)
        dE == Mul(e.K, RDiv(25 * sent + 35 * vol, 100))
        E2 == clamp(e.E + dE - c.loss, c.clamp_low, c.clamp_high)
    IN  [eng |-> [e EXCEPT !.E = E2],
         info |-> [E |-> E2, phase |-> phase(E2, c), dE |-> E2 - e.E,
                   source |-> "perception"]]

\* EVCEngine.update_from_text: [eng: the engine after, info: the result]
update_from_text(e, c, user_text) ==
    LET sent == simple_sentiment(user_text)
        vol == volatility_hint(user_text)
        dE == Mul(e.K, RDiv(25 * sent + 35 * vol, 100))
        E2 == clamp(e.E + dE - c.loss, c.clamp_low, c.clamp_high)
    IN  [eng |-> [e EXCEPT !.E = E2],
         info |-> [E |-> E2, phase |-> phase(E2, c), dE |-> dE, source |-> "perception"]]

\* the K clamp of update_from_reflection
K_lo == 2500
K_hi == 7500

\* a field of a reflection vector: a number, absent, or present and not a number
Num(v) == [k |-> "num", v |-> v]
Absent == [k |-> "absent", v |-> 0]
Null == [k |-> "null", v |-> 0]

Vec(coh, tox, sat, verb) ==
    [coherence |-> coh, toxicity |-> tox, satisfaction |-> sat, verbosity |-> verb]

\* dict.get(key, default): the default only for an absent key
Get(f, default) == IF f.k = "absent" THEN Num(default) ELSE f

\* update_from_reflection with the stability target taken from E before the
\* update
update_from_reflection_stale_target(e, c, vector) ==
    LET coh == Get(vector.coherence, 6000)
        tox == Get(vector.toxicity, 0)
        sat == Get(vector.satisfaction, 5000)
        verb == Get(vector.verbosity, 5000)
    IN  IF \E f \in {coh, tox, sat, verb} : f.k # "num"
        THEN [eng |-> e, raised |-> TRUE, info |-> [source |-> "none"]]
        ELSE
        LET dE == Mul(e.K, RDiv(40 * tox.v + 5 * verb.v - 30 * coh.v - 20 * sat.v, 100))
            E2 == clamp(e.E + dE - RDiv(c.loss, 2), c.clamp_low, c.clamp_high)
            target_stability == SC - Min(SC, Abs(e.E - 5000))
            st2 == RDiv(8 * e.stability + 2 * target_stability, 10)
            K2 == clamp(Mul(e.K, 9800 + RDiv(4 * st2, 100)), K_lo, K_hi)
        IN  [eng |-> [E |-> E2, K |-> K2, stability |-> st2],
             raised |-> FALSE,
             info |-> [E |-> E2, phase |-> phase(E2, c), dE |-> dE,
                       source |-> "reflection", K |-> K2]]

\* update_from_reflection with the drift of K turned round: K shrinks while
\* the stability accumulator is high
update_from_reflection_dampening(e, c, vector) ==
    LET coh == Get(vector.coherence, 6000)
        tox == Get(vector.toxicity, 0)
        sat == Get(vector.satisfaction, 5000)
        verb == Get(vector.verbosity, 5000)
    IN  IF \E f \in {coh, tox, sat, verb} : f.k # "num"
        THEN [eng |-> e, raised |-> TRUE, info |-> [source |-> "none"]]
        ELSE
        LET dE == Mul(e.K, RDiv(40 * tox.v + 5 * verb.v - 30 * coh.v - 20 * sat.v, 100))
            E2 == clamp(e.E + dE - RDiv(c.loss, 2), c.clamp_low, c.clamp_high)
            target_stability == SC - Min(SC, Abs(E2 - 5000))
            st2 == RDiv(8 * e.stability + 2 * target_stability, 10)
            K2 == clamp(Mul(e.K, 10200 - RDiv(4 * st2, 100)), K_lo, K_hi)
        IN  [eng |-> [E |-> E2, K |-> K2, stability |-> st2],
             raised |-> FALSE,
             info |-> [E |-> E2, phase |-> phase(E2, c), dE |-> dE,
                       source |-> "reflection", K |-> K2]]

\* EVCEngine.update_from_reflection: arithmetic on a non-number raises before
\* any assignment, and the engine is left as it was
update_from_reflection(e, c, vector) ==
    LET coh == Get(vector.coherence, 6000)
        tox == Get(vector.toxicity, 0)
        sat == Get(vector.satisfaction, 5000)
        verb == Get(vector.verbosity, 5000)
    IN  IF \E f \in {coh, tox, sat, verb} : f.k # "num"
        THEN [eng |-> e, raised |-> TRUE, info |-> [source |-> "none"]]
        ELSE
        LET dE == Mul(e.K, RDiv(40 * tox.v + 5 * verb.v - 30 * coh.v - 20 * sat.v, 100))
            E2 == clamp(e.E + dE - RDiv(c.loss, 2), c.clamp_low, c.clamp_high)
            target_stability == SC - Min(SC, Abs(E2 - 5000))
            st2 == RDiv(8 * e.stability + 2 * target_stability, 10)
            K2 == clamp(Mul(e.K, 9800 + RDiv(4 * st2, 100)), K_lo, K_hi)
        IN  [eng |-> [E |-> E2, K |-> K2, stability |-> st2],
             raised |-> FALSE,
             info |-> [E |-> E2, phase |-> phase(E2, c), dE |-> dE,
                       source |-> "reflection", K |-> K2]]

\* ------------------------------------------------------ reflection.py
RECURSIVE TokScan(_, _)
\* set(text.split()): cur is the token being read
TokScan(t, cur) ==
    IF t = <<>> THEN (IF cur = <<>> THEN {} ELSE {cur})
    ELSE IF Head(t) \in {"sp", "par"}
         THEN (IF cur = <<>> THEN {} ELSE {cur}) \cup TokScan(Tail(t), <<>>)
    ELSE IF Head(t) = "bul"
         THEN {Append(cur, "-")} \cup TokScan(Tail(t), <<>>)
    ELSE TokScan(Tail(t), Append(cur, Head(t)))
TokenSet(t) == TokScan(t, <<>>)

\* str.count of a one-symbol pattern
CountSym(t, s) == Cardinality({i \in 1..Len(t) : t[i] = s})

\* a part of the banned-word list
toxic_words == {<<"ngo">>, <<"kliat">>}

c01(x) == Max(0, Min(SC, x))

\* reflect without the clipping of its scores to [0, 1]
reflect_unclipped(user_input, draft_answer) ==
    LET n == CharLen(draft_answer)
        coherence == RDiv(n * SC, 300)
                     + 2000 * (CountSym(draft_answer, "bul")
                               + CountSym(draft_answer, "par"))
        toxicity == IF \E w \in toxic_words : Contains(draft_answer, w) THEN SC ELSE 0
        qs == TokenSet(user_input)
        as == TokenSet(draft_answer)
        ratio == IF qs = {} THEN 0 ELSE RDiv(Cardinality(qs \cap as) * SC, Cardinality(qs))
    IN  Vec(Num(coherence), Num(toxicity), Num(ratio + 2000), Num(RDiv(n * SC, 800)))

\* reflect(user_input, draft_answer); the 1e-6 in the satisfaction quotient is
\* below the unit and shows only as the guard against an empty query
reflect(user_input, draft_answer) ==
    LET n == CharLen(draft_answer)
        coherence == Min(SC, RDiv(n * SC, 300)
                             + 2000 * (CountSym(draft_answer, "bul")
                                       + CountSym(draft_answer, "par")))
        toxicity == IF \E w \in toxic_words : Contains(draft_answer, w) THEN SC ELSE 0
        qs == TokenSet(user_input)
        as == TokenSet(draft_answer)
        ratio == IF qs = {} THEN 0 ELSE RDiv(Cardinality(qs \cap as) * SC, Cardinality(qs))
        satisfaction == Min(SC, ratio + 2000)
        verbosity == Min(SC, RDiv(n * SC, 800))
    IN  Vec(Num(c01(coherence)), Num(c01(toxicity)),
            Num(c01(satisfaction)), Num(c01(verbosity)))

\* ---------------------------------------------------------- core_llm.py
\* a value returned by the backend client: a text, or an object that is no text
Str(t) == [t |-> "str", s |-> t]
NonStr == [t |-> "obj", s |-> <<>>]

\* the marker prefix of a failure text
MARK == <<"WARN">>

\* LLMCore.__init__: the state view starts at a fixed default
LLMCore(provider, base_url) ==
    [provider |-> provider, base_url |-> base_url,
     evc_state |-> [E |-> 5000, K |-> 4500, phase |-> "calm"]]

\* LLMCore._is_local
is_local(url) == url = "local"

\* LLMCore._fallback_response
fallback_response(l, mode) ==
    IF mode = "evc"
    THEN Str(<<"{", "w60", "sp", l.evc_state.phase, "sp", "offline", "}">>)
    ELSE Str(<<"WARN", "sp", "w18", "sp", "LLM", "sp", "w3", "sp", "w24">>)

\* LLMCore._extract_json: the first JSON object of a text, else the text
extract_json(content) ==
    IF content.t # "str" THEN content
    ELSE IF Contains(content.s, <<"{json}">>) THEN Str(<<"{json}">>)
    ELSE content

\* one answer of the backend to one request
Resp(kind, content) == [kind |-> kind, content |-> content]

\* what one request yields: a returned value, or nothing (ok = FALSE)
\* LLMCore._call_ollama
call_ollama(l, mode, r) ==
    CASE r.kind = "status" -> Str(<<"WARN", "sp", "ollama", "sp", "status">>)
      [] r.kind = "empty" -> Str(<<"WARN", "sp", "empty">>)
      [] r.kind = "timeout" -> Str(<<"WARN", "sp", "ollama", "sp", "timeout">>)
      [] r.kind = "error" -> Str(<<"WARN", "sp", "conn", "sp", "error">>)
      [] r.kind = "nontext" -> NonStr
      [] OTHER -> IF mode = "evc" THEN extract_json(Str(r.content)) ELSE Str(r.content)

\* the endpoints _call_cloud_api tries, in order
endpoint_urls == <<"/v1/chat/completions", "/chat/completions", "/api/chat">>

\* a client that asks the first endpoint only
cloud_loop_first_endpoint(l, mode, rs, i) ==
    IF rs[i].kind = "ok"
    THEN (IF mode = "evc" THEN extract_json(Str(rs[i].content)) ELSE Str(rs[i].content))
    ELSE IF rs[i].kind = "nontext" THEN NonStr
    ELSE fallback_response(l, mode)

RECURSIVE cloud_loop(_, _, _, _)
\* the loop of _call_cloud_api from endpoint i on; rs[i] answers request i
cloud_loop(l, mode, rs, i) ==
    IF i > Len(endpoint_urls) THEN fallback_response(l, mode)
    ELSE IF rs[i].kind = "ok"
         THEN (IF mode = "evc" THEN extract_json(Str(rs[i].content)) ELSE Str(rs[i].content))
    ELSE IF rs[i].kind = "nontext" THEN NonStr
    ELSE cloud_loop(l, mode, rs, i + 1)

\* LLMCore._call_cloud_api
call_cloud_api(l, mode, rs) ==
    IF l.base_url = "" THEN fallback_response(l, mode)
    ELSE cloud_loop(l, mode, rs, 1)

\* LLMCore.set_evc_state
set_evc_state(l, st) == [l EXCEPT !.evc_state = st]

\* LLMCore.generate: evc_state is <<>> (no argument) or <<state>>;
\* returns [llm: the client after, out: the value returned]
generate(l, mode, evc_state, rs) ==
    LET l2 == IF evc_state # <<>> THEN set_evc_state(l, evc_state[1]) ELSE l
        out == IF l2.provider = "offline" \/ l2.base_url = ""
               THEN fallback_response(l2, mode)
               ELSE IF is_local(l2.base_url) \/ l2.provider = "ollama"
               THEN call_ollama(l2, mode, rs[1])
               ELSE call_cloud_api(l2, mode, rs)
    IN  [llm |-> l2, out |-> out]

\* ------------------------------------------------------------ memory.py
EmptyData == [kind |-> "doc", turns |-> <<>>, state |-> [set |-> FALSE]]

\* Memory.__init__: the document of the file when it exists and parses
Memory(file) ==
    IF file.kind \in {"missing", "garbage"} THEN EmptyData ELSE file

\* Memory.save_turn; io says whether the file can be written.
\* [data: the document in memory after, file: the file after, raised]
save_turn(data, file, user, answer, evc_info, reflect_vec, io) ==
    IF data.kind # "doc"
    THEN [data |-> data, file |-> file, raised |-> TRUE]
    ELSE LET d2 == [data EXCEPT
                      !.turns = Append(@, [user |-> user, answer |-> answer,
                                           evc |-> evc_info, reflection |-> reflect_vec]),
                      !.state = [set |-> TRUE, E |-> evc_info.E, phase |-> evc_info.phase]]
         IN  IF io = "ok" THEN [data |-> d2, file |-> d2, raised |-> FALSE]
             ELSE [data |-> d2, file |-> file, raised |-> TRUE]

\* EVCEngine.tone_from_phase: the tone configured for the phase
tone_from_phase(e, c) == <<"tone", phase(e.E, c)>>

\* ------------------------------------------------------------ the state
VARIABLES
    cfg,    \* the configuration document loaded at start (its evc section;
            \* for an AIPlayer the document with the keys it has)
    evc,    \* the EVCEngine: [E, K, stability]
    info,   \* the result of the last engine update
    call,   \* the last engine call: its operation, argument, engine before, outcome
    llm,    \* the process-wide LLMCore: [provider, base_url, evc_state]
    mem,    \* Memory.data of the chat page
    memFile,\* the session memory file
    ss,     \* st.session_state: [chat_log, vals, last_dE, processing]
    pc,     \* the position of the chat turn handler
    loc,    \* the locals of the chat turn handler
    turn,   \* the running turn: its number, the engine before it, its steps so far
    cmem,   \* a ConversationMemory of enhanced_dual_ai.py: [turns, full_history, maxlen]
    amem,   \* a ConversationMemory of ai_chat_complete.py
    added,  \* the turns handed to add_turn so far, per store, in call order
    dual    \* the object under the calls of a specification: a
            \* LongContextConversation and the position of its run, an
            \* AIPlayer, a ContextAwareLLM, or a search cache and its clock

engineVars == <<cfg, evc, info, call>>
chatVars == <<llm, mem, memFile, ss, pc, loc, turn>>
storeVars == <<cmem, amem, added>>
vars == <<cfg, evc, info, call, llm, mem, memFile, ss, pc, loc, turn,
          cmem, amem, added, dual>>

\* no store and no dual conversation in use
StoreIdle ==
    /\ cmem = [turns |-> <<>>, full_history |-> <<>>, maxlen |-> 0]
    /\ amem = [turns |-> <<>>, full_history |-> <<>>, maxlen |-> 0]
    /\ added = [c |-> <<>>, a |-> <<>>]
DualIdle == dual = [pc |-> "none"]

\* the chat page at rest
ChatIdle ==
    /\ llm = LLMCore("offline", "")
    /\ mem = EmptyData
    /\ memFile = [kind |-> "missing"]
    /\ ss = [chat_log |-> <<>>, vals |-> <<>>, last_dE |-> 0, processing |-> FALSE]
    /\ pc = "idle"
    /\ loc = [u |-> <<>>]
    /\ turn = [n |-> 0, steps |-> <<>>]

\* ------------------------------------- the engine under arbitrary calls
MaxSteps == 3

NeutralVec == Vec(Num(6000), Num(0), Num(5000), Num(5000))

EngTexts ==
    { <<>>,
      <<"thx">>,
      <<"yae", "maak">>,
      <<"dee", "maak", "sp", "yae">>,
      <<"reng", "duan", "sp", "wikrit", "sp", "thx">> }

EngVectors ==
    { NeutralVec,
      Vec(Absent, Absent, Absent, Absent),
      Vec(Num(10000), Num(0), Num(10000), Num(0)),
      Vec(Num(0), Num(10000), Num(0), Num(10000)),
      Vec(Num(0), Num(50000), Num(0), Num(0)),
      Vec(Num(50000), Num(0), Num(20000), Num(0)),
      Vec(Num(6000), Num(0 - 10000), Num(5000), Num(5000)),
      Vec(Null, Num(0), Num(5000), Num(5000)),
      Vec(Num(6000), Absent, Num(5000), Null) }

EngInit ==
    /\ cfg \in Configs
    /\ evc = EVCEngine(cfg)
    /\ info = [source |-> "none"]
    /\ call = [op |-> "none", n |-> 0]
    /\ ChatIdle /\ StoreIdle /\ DualIdle

EngText ==
    \E t \in EngTexts :
        LET r == update_from_text(evc, cfg, t) IN
        /\ call.n < MaxSteps
        /\ evc' = r.eng
        /\ info' = r.info
        /\ call' = [op |-> "text", n |-> call.n + 1, text |-> t, pre |-> evc,
                    prev |-> call.op, raised |-> FALSE]
        /\ UNCHANGED <<cfg, chatVars, storeVars, dual>>

EngReflect ==
    \E v \in EngVectors :
        LET r == update_from_reflection(evc, cfg, v) IN
        /\ call.n < MaxSteps
        /\ evc' = r.eng
        /\ info' = r.info
        /\ call' = [op |-> "reflection", n |-> call.n + 1, vec |-> v, pre |-> evc,
                    prev |-> call.op, raised |-> r.raised]
        /\ UNCHANGED <<cfg, chatVars, storeVars, dual>>

EngNext == EngText \/ EngReflect

SpecEngine == EngInit /\ [][EngNext]_vars

\* ------------------------------------------------- web.py: the chat page
MaxTurns == 2

UserTexts ==
    { <<"thx">>,
      <<"yae", "maak", "sp", "reng", "duan">>,
      <<"sp">> }

Answers ==
    { <<"ok", "sp", "thx">>,
      <<"w300", "par", "bul", "ngo">> }

Responses ==
    {Resp("ok", a) : a \in Answers}
    \cup {Resp(k, <<>>) : k \in {"empty", "status", "timeout", "error", "nontext"}}

\* the environments of the backend client: provider and base URL
Setups ==
    { LLMCore("offline", ""), LLMCore("ollama", "local"),
      LLMCore("openai", "remote"), LLMCore("openai", "") }

Files == { [kind |-> "missing"], [kind |-> "garbage"], [kind |-> "other"] }

\* str.strip() is not empty
NonBlank(t) == \E i \in 1..Len(t) : t[i] \notin {"sp", "par"}

\* the reply shown when the backend call failed (web.py line 169)
CannedApology == <<"w9", "sp", "w19", "sp", "w20">>

ChatInit ==
    /\ cfg \in {DefaultCfg, Cfg(6000, 4000, 7000, 6500, 4800, 1500)}
    /\ evc = EVCEngine(cfg)
    /\ info = [source |-> "none"]
    /\ call = [op |-> "none", n |-> 0]
    /\ llm \in Setups
    /\ memFile \in Files
    /\ mem = Memory(memFile)
    /\ ss = [chat_log |-> <<>>, vals |-> <<>>, last_dE |-> 0, processing |-> FALSE]
    /\ pc = "idle"
    /\ loc = [u |-> <<>>]
    /\ turn = [n |-> 0, steps |-> <<>>]
    /\ StoreIdle /\ DualIdle

\* a run of the script: the module-level statements build the engine and the
\* Memory anew (lines 28-35); llm is the process-wide instance
ScriptTop ==
    /\ evc' = EVCEngine(cfg)
    /\ mem' = Memory(memFile)

\* a run of the script without a message to process (line 138 is false)
ChatRerun ==
    /\ pc = "idle"
    /\ evc # EVCEngine(cfg) \/ mem # Memory(memFile)
    /\ ScriptTop
    /\ turn' = [turn EXCEPT !.steps = <<>>]
    /\ UNCHANGED <<cfg, info, call, llm, memFile, ss, pc, loc, storeVars, dual>>

\* the form is submitted: line 138 holds, line 139
ChatSubmit ==
    \E u \in UserTexts :
        /\ pc = "idle"
        /\ turn.n < MaxTurns
        /\ NonBlank(u) /\ ~ss.processing
        /\ ScriptTop
        /\ ss' = [ss EXCEPT !.processing = TRUE]
        /\ loc' = [u |-> u]
        /\ turn' = [n |-> turn.n + 1, steps |-> <<>>]
        /\ pc' = "perceive"
        /\ UNCHANGED <<cfg, info, call, llm, memFile, storeVars, dual>>

\* step 1, lines 144-145
ChatPerceive ==
    LET r == update_from_text(evc, cfg, loc.u) IN
    /\ pc = "perceive"
    /\ evc' = r.eng
    /\ info' = r.info
    /\ ss' = [ss EXCEPT !.last_dE = r.info.dE]
    /\ loc' = [u |-> loc.u, info1 |-> r.info]
    /\ turn' = [n |-> turn.n, pre |-> evc, steps |-> Append(turn.steps, "perception")]
    /\ pc' = "prompt"
    /\ UNCHANGED <<cfg, call, llm, mem, memFile, storeVars, dual>>

\* steps 2 and 3 up to the call, lines 148-157
ChatPrompt ==
    /\ pc = "prompt"
    /\ loc' = [u |-> loc.u, info1 |-> loc.info1,
               system_prompt |-> tone_from_phase(evc, cfg),
               current_evc_state |-> [E |-> evc.E, K |-> evc.K,
                                      phase |-> phase(evc.E, cfg), dE |-> loc.info1.dE]]
    /\ turn' = [turn EXCEPT !.steps = Append(@, "prompt")]
    /\ pc' = "generate"
    /\ UNCHANGED <<cfg, evc, info, call, llm, mem, memFile, ss, storeVars, dual>>

\* the call of llm.generate, lines 159-164
ChatGenerate ==
    \E r1, r2, r3 \in Responses :
        LET g == generate(llm, "chat", <<loc.current_evc_state>>, <<r1, r2, r3>>) IN
        /\ pc = "generate"
        /\ llm' = g.llm
        /\ loc' = [u |-> loc.u, info1 |-> loc.info1, system_prompt |-> loc.system_prompt,
                   current_evc_state |-> loc.current_evc_state, raw_answer |-> g.out]
        /\ turn' = [turn EXCEPT !.steps = Append(@, "llm_call")]
        /\ pc' = "detect"
        /\ UNCHANGED <<cfg, evc, info, call, mem, memFile, ss, storeVars, dual>>

\* the marker test, lines 167-171
ChatDetect ==
    /\ pc = "detect"
    /\ loc.raw_answer.t = "str"
    /\ loc' = [u |-> loc.u, info1 |-> loc.info1, raw_answer |-> loc.raw_answer,
               failed |-> StartsWith(loc.raw_answer.s, MARK),
               answer |-> IF StartsWith(loc.raw_answer.s, MARK)
                          THEN CannedApology ELSE loc.raw_answer.s]
    /\ pc' = "reflect"
    /\ UNCHANGED <<cfg, evc, info, call, llm, mem, memFile, ss, turn, storeVars, dual>>

\* an exception handler that feeds the engine a made-up reflection vector
ChatAbandon_reflecting ==
    /\ pc = "detect"
    /\ loc.raw_answer.t # "str"
    /\ evc' = update_from_reflection(evc, cfg,
                 Vec(Num(5000), Num(0), Num(5000), Num(5000))).eng
    /\ ss' = [ss EXCEPT !.processing = FALSE]
    /\ turn' = [turn EXCEPT !.steps = Append(@, "abandoned")]
    /\ pc' = "idle"
    /\ UNCHANGED <<cfg, info, call, llm, mem, memFile, loc, storeVars, dual>>

\* raw_answer is no text: startswith raises and the handler of lines 203-207
\* ends the turn
ChatAbandon ==
    /\ pc = "detect"
    /\ loc.raw_answer.t # "str"
    /\ ss' = [ss EXCEPT !.processing = FALSE]
    /\ turn' = [turn EXCEPT !.steps = Append(@, "abandoned")]
    /\ pc' = "idle"
    /\ UNCHANGED <<cfg, evc, info, call, llm, mem, memFile, loc, storeVars, dual>>

\* step 4, lines 174-183 (reflect does not raise on texts)
ChatReflect ==
    /\ pc = "reflect"
    /\ loc' = [u |-> loc.u, info1 |-> loc.info1, raw_answer |-> loc.raw_answer,
               failed |-> loc.failed, answer |-> loc.answer,
               rvec |-> reflect(loc.u, loc.answer)]
    /\ turn' = [turn EXCEPT !.steps = Append(@, "reflect")]
    /\ pc' = "update"
    /\ UNCHANGED <<cfg, evc, info, call, llm, mem, memFile, ss, storeVars, dual>>

\* a reflection update issued before the backend is called
ChatUpdate_before_call ==
    LET r == update_from_reflection(evc, cfg, NeutralVec) IN
    /\ pc = "generate"
    /\ "reflection_update" \notin {turn.steps[i] : i \in 1..Len(turn.steps)}
    /\ evc' = r.eng
    /\ info' = r.info
    /\ turn' = [turn EXCEPT !.steps = Append(@, "reflection_update")]
    /\ UNCHANGED <<cfg, call, llm, mem, memFile, ss, pc, loc, storeVars, dual>>

\* step 5, line 186
ChatUpdate ==
    LET r == update_from_reflection(evc, cfg, loc.rvec) IN
    /\ pc = "update"
    /\ evc' = r.eng
    /\ info' = r.info
    /\ loc' = [u |-> loc.u, info1 |-> loc.info1, raw_answer |-> loc.raw_answer,
               failed |-> loc.failed, answer |-> loc.answer, rvec |-> loc.rvec,
               info2 |-> r.info]
    /\ turn' = [turn EXCEPT !.steps = Append(@, "reflection_update")]
    /\ pc' = "save"
    /\ UNCHANGED <<cfg, call, llm, mem, memFile, ss, storeVars, dual>>

\* steps 6 and 7, lines 189-198: the session lists, then Memory.save_turn,
\* whose failure is a warning
ChatSave ==
    \E io \in {"ok", "fail"} :
        LET w == save_turn(mem, memFile, loc.u, loc.answer, loc.info2, loc.rvec, io) IN
        /\ pc = "save"
        /\ ss' = [ss EXCEPT
                    !.chat_log = Append(@, <<loc.u, loc.answer>>),
                    !.vals = Append(@, [E |-> loc.info2.E, K |-> loc.info2.K,
                                        phase |-> loc.info2.phase])]
        /\ mem' = w.data
        /\ memFile' = w.file
        /\ turn' = [turn EXCEPT !.steps = Append(@, "append")]
        /\ pc' = "finish"
        /\ UNCHANGED <<cfg, evc, info, call, llm, loc, storeVars, dual>>

\* lines 200-201: st.rerun() runs the script again from the top
ChatFinish ==
    /\ pc = "finish"
    /\ ss' = [ss EXCEPT !.processing = FALSE]
    /\ ScriptTop
    /\ pc' = "idle"
    /\ UNCHANGED <<cfg, info, call, llm, memFile, loc, turn, storeVars, dual>>

ChatNext ==
    \/ ChatRerun \/ ChatSubmit \/ ChatPerceive \/ ChatPrompt \/ ChatGenerate
    \/ ChatDetect \/ ChatAbandon \/ ChatReflect \/ ChatUpdate \/ ChatSave
    \/ ChatFinish

SpecChat == ChatInit /\ [][ChatNext]_vars

\* ------------------------------------------- the conversation stores
\* a bounded deque that refuses the new item once it is full
deque_append_keep_oldest(q, maxlen, x) ==
    IF Len(q) >= maxlen THEN q ELSE Append(q, x)

\* collections.deque(maxlen=N).append: the oldest item leaves a full deque
deque_append(q, maxlen, x) ==
    IF maxlen = 0 THEN <<>>
    ELSE IF Len(q) >= maxlen THEN Append(Tail(q), x)
    ELSE Append(q, x)

\* ConversationMemory.__init__ (both modules)
ConversationMemory(max_turns) ==
    [turns |-> <<>>, full_history |-> <<>>, maxlen |-> max_turns]

\* enhanced_dual_ai.ConversationMemory.add_turn
add_turn(m, speaker, message, response, evc_state) ==
    LET t == [speaker |-> speaker, message |-> message, response |-> response,
              evc_state |-> evc_state]
    IN  [m EXCEPT !.turns = deque_append(@, m.maxlen, t),
                  !.full_history = Append(@, t)]

\* ai_chat_complete.ConversationMemory.add_turn
add_turn_chat(m, user_query, ai_response, search_used, search_query, evc_state) ==
    LET t == [turn_number |-> Len(m.full_history) + 1, user_query |-> user_query,
              ai_response |-> ai_response, search_used |-> search_used,
              search_query |-> search_query, evc_state |-> evc_state]
    IN  [m EXCEPT !.turns = deque_append(@, m.maxlen, t),
                  !.full_history = Append(@, t)]

\* a Python slice l[-n:] with n >= 0: -0 is 0, and l[0:] is the whole list
last_slice(l, n) ==
    IF n = 0 \/ n >= Len(l) THEN l ELSE SubSeq(l, Len(l) - n + 1, Len(l))

\* a Python slice l[:n] of a text, cut between symbols
first_chars(t, n) ==
    SubSeq(t, 1, CHOOSE k \in 0..Len(t) :
                    /\ CharLen(SubSeq(t, 1, k)) <= n
                    /\ (k < Len(t) => CharLen(SubSeq(t, 1, k + 1)) > n))

\* enhanced_dual_ai.ConversationMemory.get_context: the text is the heading
\* and one block per turn, held here as the list of the blocks
get_context(m, recent_n) ==
    LET recent == last_slice(m.turns, recent_n)
    IN  [i \in 1..Len(recent) |->
            [speaker |-> recent[i].speaker, query |-> recent[i].message,
             response |-> recent[i].response,
             phase |-> recent[i].evc_state.phase]]

\* ai_chat_complete.ConversationMemory.get_context
get_context_chat(m, recent_n) ==
    LET recent == last_slice(m.turns, recent_n)
    IN  [i \in 1..Len(recent) |->
            [number |-> recent[i].turn_number,
             user |-> first_chars(recent[i].user_query, 150),
             assistant |-> first_chars(recent[i].ai_response, 200),
             search_info |-> IF recent[i].search_used
                             THEN <<recent[i].search_query>> ELSE <<>>]]

\* a search that keeps the five oldest matches
search_related_oldest(m, keyword) ==
    LET hit(t) == \/ Contains(Lower(t.message), Lower(keyword))
                  \/ Contains(Lower(t.response), Lower(keyword))
        results == SelectSeq(m.full_history, hit)
    IN  SubSeq(results, 1, Min(5, Len(results)))

\* enhanced_dual_ai.ConversationMemory.search_related
search_related(m, keyword) ==
    LET hit(t) == \/ Contains(Lower(t.message), Lower(keyword))
                  \/ Contains(Lower(t.response), Lower(keyword))
        results == SelectSeq(m.full_history, hit)
    IN  IF Len(results) <= 5 THEN results
        ELSE SubSeq(results, Len(results) - 4, Len(results))

\* enhanced_dual_ai.ConversationMemory.export: the JSON document written
export(m) ==
    [kind |-> "object", total_turns |-> Len(m.full_history),
     history |-> m.full_history]

\* ai_chat_complete.EnhancedLLM.export_conversation: the JSON document written
export_conversation(m) == [kind |-> "array", items |-> m.full_history]

MaxCap == 2
MaxAppends == 4

StoreTexts == { <<"thx">>, <<"OK", "sp", "yae">> }
StoreState == [E |-> 5000, K |-> 4500, phase |-> "cooldown"]

StoreInit ==
    /\ cfg = DefaultCfg
    /\ evc = EVCEngine(cfg)
    /\ info = [source |-> "none"]
    /\ call = [op |-> "none", n |-> 0]
    /\ ChatIdle /\ DualIdle
    /\ \E n \in 0..MaxCap : cmem = ConversationMemory(n)
    /\ \E n \in 0..MaxCap : amem = ConversationMemory(n)
    /\ added = [c |-> <<>>, a |-> <<>>]

StoreAddDual ==
    \E sp \in {"A", "B"}, msg \in StoreTexts :
        LET resp == <<"ok">> IN
        /\ Len(added.c) + Len(added.a) < MaxAppends
        /\ cmem' = add_turn(cmem, sp, msg, resp, StoreState)
        /\ added' = [added EXCEPT !.c = Append(@, <<sp, msg, resp>>)]
        /\ call' = [op |-> "none", n |-> 0]
        /\ UNCHANGED <<cfg, evc, info, chatVars, amem, dual>>

StoreAddChat ==
    \E q \in StoreTexts, used \in BOOLEAN :
        LET resp == <<"ok">> IN
        /\ Len(added.c) + Len(added.a) < MaxAppends
        /\ amem' = add_turn_chat(amem, q, resp, used, IF used THEN q ELSE <<>>, StoreState)
        /\ added' = [added EXCEPT !.a = Append(@, <<q, resp>>)]
        /\ call' = [op |-> "none", n |-> 0]
        /\ UNCHANGED <<cfg, evc, info, chatVars, cmem, dual>>

\* a call of get_context on either store; call holds the last read since the
\* last append
StoreGetContext ==
    /\ call.op = "none"
    /\ \E n \in 0..(MaxCap + 1), which \in {"c", "a"} :
        /\ call' = [op |-> "get_context", n |-> n, store |-> which,
                    out |-> IF which = "c" THEN get_context(cmem, n)
                            ELSE get_context_chat(amem, n)]
        /\ UNCHANGED <<cfg, evc, info, chatVars, storeVars, dual>>

\* a conversation export of either store
StoreExport ==
    /\ call.op = "none"
    /\ \E which \in {"c", "a"} :
        /\ call' = [op |-> "export", n |-> 0, store |-> which,
                    out |-> IF which = "c" THEN export(cmem)
                            ELSE export_conversation(amem)]
        /\ UNCHANGED <<cfg, evc, info, chatVars, storeVars, dual>>

StoreNext == StoreAddDual \/ StoreAddChat \/ StoreGetContext \/ StoreExport

SpecStore == StoreInit /\ [][StoreNext]_vars

\* --------------------------- search over the archive of a dual-AI store
MaxArchive == 7

\* the turns appended: no match, a match in the message in another case, a
\* match in the response only
SearchTurns ==
    { [message |-> <<"thx">>, response |-> <<"w3">>],
      [message |-> <<"OK", "sp", "yae">>, response |-> <<"w3">>],
      [message |-> <<"w9">>, response |-> <<"bul", "ok">>] }
Keywords == { <<"ok">>, <<"OK">>, <<"yae">>, <<"wikrit">> }

SearchInit ==
    /\ cfg = DefaultCfg
    /\ evc = EVCEngine(cfg)
    /\ info = [source |-> "none"]
    /\ call = [op |-> "none", n |-> 0]
    /\ ChatIdle /\ DualIdle
    /\ cmem = ConversationMemory(MaxCap)
    /\ amem = ConversationMemory(0)
    /\ added = [c |-> <<>>, a |-> <<>>]

SearchAdd ==
    /\ Len(added.c) < MaxArchive
    /\ \E t \in SearchTurns :
        /\ cmem' = add_turn(cmem, "A", t.message, t.response, StoreState)
        /\ added' = [added EXCEPT !.c = Append(@, <<"A", t.message, t.response>>)]
        /\ call' = [op |-> "none", n |-> 0]
        /\ UNCHANGED <<cfg, evc, info, chatVars, amem, dual>>

\* a call of search_related; call holds the last search since the last append
SearchRelated ==
    /\ call.op = "none"
    /\ \E k \in Keywords :
        /\ call' = [op |-> "search_related", n |-> 0, keyword |-> k,
                    pre |-> cmem, out |-> search_related(cmem, k)]
        /\ UNCHANGED <<cfg, evc, info, chatVars, storeVars, dual>>

SearchNext == SearchAdd \/ SearchRelated

SpecSearch == SearchInit /\ [][SearchNext]_vars

\* ----------------------------- enhanced_dual_ai.py: the long conversation
MaxDualTurns == 3

\* the reply of a player whose backend call failed (line 157)
CannedPlayer(name) == <<"WARN", "sp", name, "sp", "bul", "w22">>

\* the first prompt (line 216)
TopicPrompt == <<"topic", "sp", "w60">>

\* the backend obtained no content: nothing was requested, or no request that
\* generate made was answered with content
BackendFailed(l, rs) ==
    IF l.provider = "offline" \/ l.base_url = "" THEN TRUE
    ELSE IF is_local(l.base_url) \/ l.provider = "ollama"
         THEN rs[1].kind \notin {"ok", "nontext"}
    ELSE \A i \in 1..Len(rs) : rs[i].kind \notin {"ok", "nontext"}

\* EnhancedAIPlayer.respond: [raised, eng, llm, mem] and, when it returns,
\* [response, turn_data]; whatever is raised inside is raised again (line 187)
respond(name, e, c, l, m, prompt, mode, rs) ==
    LET r1 == update_from_text(e, c, prompt)
        g == generate(l, mode,
                      <<[E |-> r1.eng.E, K |-> r1.eng.K,
                         phase |-> phase(r1.eng.E, c), dE |-> r1.info.dE]>>, rs)
    IN  IF g.out.t # "str"
        THEN [raised |-> TRUE, eng |-> r1.eng, llm |-> g.llm, mem |-> m]
        ELSE
        LET response == IF StartsWith(g.out.s, MARK) THEN CannedPlayer(name) ELSE g.out.s
            rvec == reflect(prompt, response)
            r2 == update_from_reflection(r1.eng, c, rvec)
        IN  [raised |-> FALSE, eng |-> r2.eng, llm |-> g.llm,
             mem |-> add_turn(m, name, prompt, response, r2.info),
             response |-> response,
             turn_data |-> [player |-> name, prompt |-> prompt, response |-> response,
                            evc_before |-> r1.info, evc_after |-> r2.info,
                            reflection |-> rvec, mode |-> mode,
                            raw |-> g.out.s, backend_failed |-> BackendFailed(l, rs)]]

\* LongContextConversation.__init__ and the start of run_long_conversation
DualInit ==
    /\ cfg = DefaultCfg
    /\ evc = EVCEngine(cfg)
    /\ info = [source |-> "none"]
    /\ call = [op |-> "none", n |-> 0]
    /\ mem = EmptyData
    /\ memFile = [kind |-> "missing"]
    /\ ss = [chat_log |-> <<>>, vals |-> <<>>, last_dE |-> 0, processing |-> FALSE]
    /\ pc = "idle"
    /\ loc = [u |-> <<>>]
    /\ turn = [n |-> 0, steps |-> <<>>]
    /\ llm \in Setups
    /\ cmem = ConversationMemory(100)
    /\ amem = ConversationMemory(0)
    /\ added = [c |-> <<>>, a |-> <<>>]
    /\ \E se \in {2, 5} :
        dual = [pc |-> "loop",
                players |-> [A |-> EVCEngine(cfg), B |-> EVCEngine(cfg)],
                turns |-> <<>>, turn_count |-> 0, turn_idx |-> 0,
                current_prompt |-> TopicPrompt,
                max_turns |-> MaxDualTurns, save_every |-> se]

\* one pass of the loop of run_long_conversation, lines 219-269; io says
\* whether the backup export of line 260 can write its file
DualTurn ==
    \E r1, r2, r3 \in Responses,
       io \in IF (dual.turn_idx + 1) % dual.save_every = 0
              THEN {"ok", "fail"} ELSE {"ok"} :
        LET name == IF dual.turn_idx % 2 = 0 THEN "A" ELSE "B"
            other == IF dual.turn_idx % 2 = 0 THEN "B" ELSE "A"
            mode == IF dual.turn_idx % 5 = 0 THEN "evc" ELSE "chat"
            exporting == (dual.turn_idx + 1) % dual.save_every = 0
        IN  /\ dual.pc = "loop"
            /\ dual.turn_idx < dual.max_turns
            /\ \E r \in {respond(name, dual.players[name], cfg, llm, cmem,
                                 dual.current_prompt, mode, <<r1, r2, r3>>)} :
                /\ llm' = r.llm
                /\ cmem' = r.mem
                /\ IF r.raised
                   THEN dual' = [dual EXCEPT !.players[name] = r.eng,
                                             !.turn_idx = @ + 1]
                   ELSE dual' = [dual EXCEPT
                            !.players[name] = r.eng,
                            !.turns = Append(@,
                                [turn |-> dual.turn_idx + 1, speaker |-> name,
                                 opponent |-> other, mode |-> mode,
                                 prompt |-> dual.current_prompt,
                                 response |-> r.response,
                                 evc_speaker |-> r.turn_data.evc_after,
                                 reflection |-> r.turn_data.reflection,
                                 raw |-> r.turn_data.raw,
                                 backend_failed |-> r.turn_data.backend_failed]),
                            !.turn_count = @ + 1,
                            !.current_prompt = IF exporting /\ io = "fail"
                                               THEN @ ELSE r.response,
                            !.turn_idx = @ + 1]
            /\ UNCHANGED <<cfg, evc, info, call, mem, memFile, ss, pc, loc, turn,
                           amem, added>>

\* the end of run_long_conversation, lines 272-287
DualFinalize ==
    /\ dual.pc = "loop"
    /\ dual.turn_idx >= dual.max_turns
    /\ dual' = [pc |-> "done", players |-> dual.players, turns |-> dual.turns,
                turn_count |-> dual.turn_count, turn_idx |-> dual.turn_idx,
                current_prompt |-> dual.current_prompt,
                max_turns |-> dual.max_turns, save_every |-> dual.save_every,
                summary |-> [total_turns |-> dual.turn_count,
                             memory_size |-> Len(cmem.full_history),
                             final_evc_a |-> [E |-> dual.players["A"].E,
                                              K |-> dual.players["A"].K,
                                              phase |-> phase(dual.players["A"].E, cfg)],
                             final_evc_b |-> [E |-> dual.players["B"].E,
                                              K |-> dual.players["B"].K,
                                              phase |-> phase(dual.players["B"].E, cfg)]]]
    /\ UNCHANGED <<cfg, evc, info, call, chatVars, storeVars>>

DualNext == DualTurn \/ DualFinalize

SpecDual == DualInit /\ [][DualNext]_vars

\* ------------------------------------- the scorers applied to arbitrary input
MaxLen == 3

\* the arguments handed to the scorers: texts, and a value that is no text
\* (None, a number)
LexAlphabet == {"dee", "maak", "thx", "yae", "mai", "duan", "sp", "OK"}
LexTexts == UNION {[1..n -> LexAlphabet] : n \in 0..MaxLen}
LexInputs == {Str(t) : t \in LexTexts} \cup {NonStr}

ReflectAlphabet == {"ok", "thx", "sp", "bul", "par", "w300", "w800", "ngo"}
ReflectAnswers == UNION {[1..n -> ReflectAlphabet] : n \in 0..MaxLen}
ReflectQueries == { <<>>, <<"sp">>, <<"thx">>, <<"ok", "sp", "thx">> }

\* simple_sentiment and volatility_hint on a Python value: text.lower() raises
\* on a value that is no text
score(x) ==
    IF x.t # "str" THEN [raised |-> TRUE]
    ELSE [raised |-> FALSE, sent |-> simple_sentiment(x.s), vol |-> volatility_hint(x.s)]

\* update_from_text on a Python value: the scorers run first, and when they
\* raise nothing is assigned
perceive(e, c, x) ==
    IF score(x).raised THEN [eng |-> e, raised |-> TRUE, info |-> [source |-> "none"]]
    ELSE [eng |-> update_from_text(e, c, x.s).eng, raised |-> FALSE,
          info |-> update_from_text(e, c, x.s).info]

LexInit ==
    /\ cfg = DefaultCfg
    /\ evc = EVCEngine(cfg)
    /\ info = [source |-> "none"]
    /\ call = [op |-> "none", n |-> 0]
    /\ ChatIdle /\ StoreIdle /\ DualIdle

\* a call of the two scorers
LexScore ==
    /\ call.op = "none"
    /\ \E x \in LexInputs :
        /\ call' = [op |-> "score", n |-> 1, arg |-> x, out |-> score(x)]
        /\ UNCHANGED <<cfg, evc, info, chatVars, storeVars, dual>>

\* a call of update_from_text
LexPerceive ==
    /\ call.op = "none"
    /\ \E x \in LexInputs :
        \E r \in {perceive(evc, cfg, x)} :
            /\ evc' = r.eng
            /\ info' = r.info
            /\ call' = [op |-> "perceive", n |-> 1, arg |-> x, pre |-> evc,
                        raised |-> r.raised]
            /\ UNCHANGED <<cfg, chatVars, storeVars, dual>>

\* a call of reflect
LexReflect ==
    /\ call.op = "none"
    /\ \E q \in ReflectQueries, a \in ReflectAnswers :
        /\ call' = [op |-> "reflect", n |-> 1, q |-> q, a |-> a,
                    out |-> <<reflect(q, a)>>]
        /\ UNCHANGED <<cfg, evc, info, chatVars, storeVars, dual>>

\* a second call of reflect with the arguments of the first
LexReflectAgain ==
    /\ call.op = "reflect" /\ call.n = 1
    /\ call' = [call EXCEPT !.n = 2, !.out = Append(@, reflect(call.q, call.a))]
    /\ UNCHANGED <<cfg, evc, info, chatVars, storeVars, dual>>

LexNext == LexScore \/ LexPerceive \/ LexReflect \/ LexReflectAgain

SpecLex == LexInit /\ [][LexNext]_vars

\* ------------------------------- selfplay_streamlit.py: one AIPlayer
MaxPlayerTurns == 2

\* the keys EVCEngine.__init__ reads from the evc section
CfgKeys ==
    {"E_init", "loss", "K", "clamp_low", "clamp_high", "overheat_threshold",
     "fear_threshold", "cooldown_margin"}

\* the values a configuration file gives to the keys it has, none the default
FileValues ==
    [Cfg(6200, 1000, 14000, 10000, 3000, 400) EXCEPT !.loss = 100, !.K = 5000]

\* a configuration document: whether it has an evc section, the keys the
\* section has, and the tone map: <<>> when absent, else <<the phases with a
\* tone>>
Document(has_evc, keys, tone_map) ==
    [has_evc |-> has_evc, keys |-> keys, tone_map |-> tone_map]

ToneMaps == { <<>>, << {} >>, << {"calm", "focus"} >> }

Documents ==
    {Document(TRUE, S, tm) : S \in SUBSET CfgKeys, tm \in ToneMaps}
    \cup {Document(FALSE, {}, tm) : tm \in ToneMaps}

\* the fields EVCEngine.__init__ keeps: evc = cfg.get("evc", {}) and
\* evc.get(key, default) for each key
engine_cfg(d) ==
    [k \in DOMAIN DefaultCfg |->
        IF d.has_evc /\ k \in d.keys THEN FileValues[k] ELSE DefaultCfg[k]]

\* the second argument of tone_map.get
DefaultTone == <<"tone", "default">>

\* tone_from_phase(cfg.get("tone_map", {})): the tone of the phase, or the
\* default tone when the map has none
tone_lookup(e, d) ==
    LET p == phase(e.E, engine_cfg(d))
    IN  IF d.tone_map # <<>> /\ p \in d.tone_map[1] THEN <<"tone", p>>
        ELSE DefaultTone

\* AIPlayer.__init__: the logs of a new player
AIPlayer == [conversation_log |-> <<>>, evc_states |-> <<>>]

\* AIPlayer.reset: the assignments of lines 38-41 in order; cfg["evc"],
\* ["E_init"] and ["K"] raise KeyError on an absent key, after what was
\* assigned before. [player, eng, raised]
reset(p, e, d) ==
    IF ~d.has_evc \/ "E_init" \notin d.keys
    THEN [player |-> AIPlayer, eng |-> e, raised |-> TRUE]
    ELSE IF "K" \notin d.keys
    THEN [player |-> AIPlayer, eng |-> [e EXCEPT !.E = FileValues.E_init],
          raised |-> TRUE]
    ELSE [player |-> AIPlayer,
          eng |-> [e EXCEPT !.E = FileValues.E_init, !.K = FileValues.K],
          raised |-> FALSE]

\* the reply of a player whose backend call failed (line 79)
CannedSelfplay(name) == <<"w19", "sp", "w20", "sp", name>>

\* AIPlayer.respond: [raised, eng, llm, player]; whatever is raised inside is
\* raised again (line 115)
AIPlayer_respond(name, p, e, d, l, prompt, mode, rs) ==
    LET c == engine_cfg(d)
        r1 == update_from_text(e, c, prompt)
        g == generate(l, mode,
                      <<[E |-> r1.eng.E, K |-> r1.eng.K,
                         phase |-> phase(r1.eng.E, c), dE |-> r1.info.dE]>>, rs)
    IN  IF g.out.t # "str"
        THEN [raised |-> TRUE, eng |-> r1.eng, llm |-> g.llm, player |-> p]
        ELSE
        LET response == IF StartsWith(g.out.s, MARK) THEN CannedSelfplay(name)
                        ELSE g.out.s
            rvec == reflect(prompt, response)
            r2 == update_from_reflection(r1.eng, c, rvec)
            turn_data == [player |-> name, prompt |-> prompt, response |-> response,
                          evc_before |-> r1.info, evc_after |-> r2.info,
                          reflection |-> rvec, mode |-> mode]
        IN  [raised |-> FALSE, eng |-> r2.eng, llm |-> g.llm,
             player |-> [p EXCEPT !.conversation_log = Append(@, turn_data),
                                  !.evc_states = Append(@, r2.info)]]

PlayerPrompts == { <<"thx">>, <<"yae", "maak", "sp", "reng", "duan">> }
PlayerResponses ==
    { Resp("ok", <<"ok", "sp", "thx">>), Resp("empty", <<>>), Resp("nontext", <<>>) }

\* AIPlayer("A", cfg) for a configuration document
PlayerInit ==
    /\ cfg \in Documents
    /\ evc = EVCEngine(engine_cfg(cfg))
    /\ info = [source |-> "none"]
    /\ call = [op |-> "none", n |-> 0]
    /\ ChatIdle /\ StoreIdle
    /\ dual = [pc |-> "player", player |-> AIPlayer, turns |-> 0]

PlayerRespond ==
    /\ dual.turns < MaxPlayerTurns
    /\ \E prompt \in PlayerPrompts, mode \in {"chat", "evc"}, r0 \in PlayerResponses :
        \E r \in {AIPlayer_respond("A", dual.player, evc, cfg,
                                   LLMCore("ollama", "local"), prompt, mode,
                                   <<r0, r0, r0>>)} :
            /\ evc' = r.eng
            /\ dual' = [dual EXCEPT !.player = r.player, !.turns = @ + 1]
            /\ call' = [op |-> "respond", n |-> 0, raised |-> r.raised]
    /\ UNCHANGED <<cfg, info, chatVars, storeVars>>

PlayerReset ==
    /\ \E r \in {reset(dual.player, evc, cfg)} :
        /\ evc' = r.eng
        /\ dual' = [dual EXCEPT !.player = r.player]
        /\ call' = [op |-> "reset", n |-> 0, raised |-> r.raised]
    /\ UNCHANGED <<cfg, info, chatVars, storeVars>>

\* a tone lookup on the player's engine
PlayerTone ==
    /\ call' = [op |-> "tone", n |-> 0, raised |-> FALSE,
                out |-> tone_lookup(evc, cfg)]
    /\ UNCHANGED <<cfg, evc, info, chatVars, storeVars, dual>>

PlayerNext == PlayerRespond \/ PlayerReset \/ PlayerTone

SpecPlayer == PlayerInit /\ [][PlayerNext]_vars

\* --------------------- prompts: core_llm.py and FixedContextBuilder
\* a prompt is held as the list of its sections; a section is its tag, the
\* text rendered into it and the numbers rendered into it
Sec(tag, text, nums) == [tag |-> tag, text |-> text, nums |-> nums]

\* f"{x:.2f}": the value in hundredths
Fmt2(x) == RDiv(x, 100)

\* str.strip()
Strip(t) ==
    LET idx == {i \in 1..Len(t) : t[i] \notin {"sp", "par"}}
    IN  IF idx = {} THEN <<>>
        ELSE SubSeq(t, CHOOSE i \in idx : \A j \in idx : i <= j,
                       CHOOSE i \in idx : \A j \in idx : i >= j)

\* the evc_info block of _build_evc_system_prompt, lines 86-92
evc_info_block(st) ==
    Sec("evc_info", <<st.phase>>,
        <<Fmt2(st.E), Fmt2(st.K), Fmt2(IF "dE" \in DOMAIN st THEN st.dE ELSE 0)>>)

\* LLMCore._build_evc_system_prompt
build_evc_system_prompt(l, system_prompt, mode) ==
    IF mode = "evc"
    THEN <<Sec("EVC_CONTEXT", <<>>, <<>>), evc_info_block(l.evc_state),
           Sec("task_json", <<>>, <<>>)>>
    ELSE Append(system_prompt, evc_info_block(l.evc_state))

\* the system message of the request that generate sends, for the client as
\* it is after set_evc_state: <<>> when no request is made (line 298)
system_context(l, system_prompt, mode) ==
    IF l.provider = "offline" \/ l.base_url = "" THEN <<>>
    ELSE << build_evc_system_prompt(l,
                IF system_prompt = <<>> THEN <<Sec("helper", <<>>, <<>>)>>
                ELSE system_prompt, mode) >>

RECURSIVE history_turns(_, _)
\* the loop of _format_history_xml over the turns from the i-th on
history_turns(recent, i) ==
    IF i > Len(recent) THEN <<>>
    ELSE <<Sec("user", first_chars(Strip(recent[i].user_query), 150),
               <<recent[i].turn_number>>),
           Sec("assistant", first_chars(Strip(recent[i].ai_response), 200), <<>>),
           Sec("theme", recent[i].key_point, <<>>)>>
         \o history_turns(recent, i + 1)

\* FixedContextBuilder._format_history_xml
format_history_xml(conversation_history, last_n_turns) ==
    IF conversation_history = <<>> THEN <<>>
    ELSE history_turns(last_slice(conversation_history, last_n_turns), 1)

\* FixedContextBuilder.build_context_prompt
build_context_prompt(history, current_turn, ai_name, user_query, evc_state, mode) ==
    LET history_xml == format_history_xml(history, 10)
        last_turn == history[Len(history)]
        prev_turn_summary ==
            IF Len(history) > 0
            THEN <<Sec("user_said", first_chars(last_turn.user_query, 200),
                       <<current_turn - 1>>),
                   Sec("your_response_was", first_chars(last_turn.ai_response, 300),
                       <<>>),
                   Sec("key_point", last_turn.key_point, <<>>)>>
            ELSE <<>>
    IN  <<Sec("identity", <<ai_name>>, <<>>),
          Sec("mandatory_instructions", <<>>, <<>>),
          Sec("evc_state", <<evc_state.phase, "tone", evc_state.phase>>,
              <<Fmt2(evc_state.E), Fmt2(evc_state.K)>>)>>
        \o (IF history_xml # <<>> THEN <<Sec("history_heading", <<>>, <<>>)>> ELSE <<>>)
        \o history_xml
        \o prev_turn_summary
        \o (IF mode = "evc" THEN <<Sec("mode_evc", <<>>, <<>>)>> ELSE <<>>)
        \o <<Sec("current", user_query, <<current_turn>>)>>

\* ContextAwareLLM._extract_key_point: the first line of the response, cut
\* at 100 characters
extract_key_point(query, response) ==
    LET brk == {i \in 1..Len(response) : response[i] = "par"}
        first_sentence ==
            IF brk = {} THEN response
            ELSE SubSeq(response, 1, (CHOOSE i \in brk : \A j \in brk : i <= j) - 1)
    IN  IF first_sentence # <<>> THEN first_chars(first_sentence, 100)
        ELSE <<"General", "sp", "discussion">>

\* ContextAwareLLM.generate_with_context; evc_state is <<>> (no argument) or
\* <<state>>. [history, llm, raised, out, prompt: the prompt built,
\* sent: the system message sent]
generate_with_context(h, l, user_query, evc_state, mode, rs) ==
    LET st == IF evc_state = <<>> THEN [E |-> 5000, K |-> 4500, phase |-> "calm"]
              ELSE evc_state[1]
        system_prompt == build_context_prompt(h, Len(h) + 1, "Assistant",
                                              user_query, st, mode)
        g == generate(l, mode, <<st>>, rs)
        sent == system_context(g.llm, system_prompt, mode)
    IN  IF g.out.t # "str"
        THEN [history |-> h, llm |-> g.llm, raised |-> TRUE, out |-> g.out,
              prompt |-> system_prompt, sent |-> sent]
        ELSE [history |-> Append(h, [turn_number |-> Len(h) + 1,
                                     user_query |-> user_query,
                                     ai_response |-> g.out.s,
                                     key_point |-> extract_key_point(user_query, g.out.s)]),
              llm |-> g.llm, raised |-> FALSE, out |-> g.out,
              prompt |-> system_prompt, sent |-> sent]

\* ------------------------- a ContextAwareLLM and the trainers, one client
MaxCtxTurns == 2

CtxQueries == { <<"thx">>, <<"sp", "w800", "par", "yae">> }
CtxStates ==
    { <<>>, <<[E |-> 11726, K |-> 3000, phase |-> "overheat"]>> }
CtxResponses ==
    { Resp("ok", <<"w300", "par", "bul", "ngo">>), Resp("empty", <<>>),
      Resp("nontext", <<>>) }

\* ContextAwareLLM(get_llm_core())
CtxInit ==
    /\ cfg = DefaultCfg
    /\ evc = EVCEngine(cfg)
    /\ info = [source |-> "none"]
    /\ call = [op |-> "none", n |-> 0]
    /\ llm \in Setups
    /\ mem = EmptyData
    /\ memFile = [kind |-> "missing"]
    /\ ss = [chat_log |-> <<>>, vals |-> <<>>, last_dE |-> 0, processing |-> FALSE]
    /\ pc = "idle"
    /\ loc = [u |-> <<>>]
    /\ turn = [n |-> 0, steps |-> <<>>]
    /\ StoreIdle
    /\ dual = [pc |-> "context", conversation_history |-> <<>>, calls |-> 0]

CtxGenerate ==
    /\ dual.calls < MaxCtxTurns
    /\ \E q \in CtxQueries, st \in CtxStates, mode \in {"chat", "evc"},
          r0 \in CtxResponses :
        \E r \in {generate_with_context(dual.conversation_history, llm, q, st,
                                        mode, <<r0, r0, r0>>)} :
            /\ llm' = r.llm
            /\ dual' = [dual EXCEPT !.conversation_history = r.history,
                                    !.calls = @ + 1]
            /\ call' = [op |-> "generate_with_context", n |-> 0,
                        history |-> dual.conversation_history, query |-> q,
                        state |-> st, mode |-> mode, raised |-> r.raised,
                        prompt |-> r.prompt, sent |-> r.sent]
    /\ UNCHANGED <<cfg, evc, info, mem, memFile, ss, pc, loc, turn, storeVars>>

\* generate(msg, tone) of selfplay_trainer.run_episode and generate(prompt)
\* of core_trainer: the module-level generate, called without a state
CtxTrainer ==
    /\ dual.calls < MaxCtxTurns
    /\ \E tone \in {<<>>, <<Sec("tone", <<"tone", "calm">>, <<>>)>>},
          r0 \in CtxResponses :
        \E g \in {generate(llm, "chat", <<>>, <<r0, r0, r0>>)} :
            /\ llm' = g.llm
            /\ dual' = [dual EXCEPT !.calls = @ + 1]
            /\ call' = [op |-> "generate", n |-> 0, out |-> g.out,
                        sent |-> system_context(g.llm, tone, "chat")]
    /\ UNCHANGED <<cfg, evc, info, mem, memFile, ss, pc, loc, turn, storeVars>>

CtxNext == CtxGenerate \/ CtxTrainer

SpecContext == CtxInit /\ [][CtxNext]_vars

\* ------------------- ai_chat_complete.py: the search cache of the store
MaxTicks == 3
MaxPuts == 2

\* timedelta.seconds of a difference of d >= 0 seconds: the days are a field
\* of their own, seconds is what remains of the last day
timedelta_seconds(d) == d % 86400

\* ConversationMemory.cache_search at time now
cache_search(search_cache, query, results, now) ==
    [search_cache EXCEPT ![Lower(query)] =
        <<[results |-> results, timestamp |-> now]>>]

\* ConversationMemory.get_cached_search at time now: <<>> is None
get_cached_search(search_cache, query, now) ==
    LET cache_key == Lower(query) IN
    IF search_cache[cache_key] # <<>>
       /\ timedelta_seconds(now - search_cache[cache_key][1].timestamp) < 3600
    THEN <<search_cache[cache_key][1].results>>
    ELSE <<>>

CacheQueries == { <<"OK">>, <<"ok">>, <<"thx">> }
CacheKeys == {Lower(q) : q \in CacheQueries}

\* ConversationMemory.__init__: an empty cache; the clock is in seconds
CacheInit ==
    /\ cfg = DefaultCfg
    /\ evc = EVCEngine(cfg)
    /\ info = [source |-> "none"]
    /\ call = [op |-> "none", n |-> 0]
    /\ ChatIdle /\ StoreIdle
    /\ dual = [pc |-> "cache", search_cache |-> [k \in CacheKeys |-> <<>>],
               now |-> 0, ticks |-> 0, puts |-> 0]

\* line 347: the results of a search are cached under the query
CachePut ==
    /\ dual.puts < MaxPuts
    /\ \E q \in CacheQueries, results \in {<<"r1">>, <<"r2">>} :
        dual' = [dual EXCEPT
                    !.search_cache = cache_search(@, q, results, dual.now),
                    !.puts = @ + 1]
    /\ call' = [op |-> "none", n |-> 0]
    /\ UNCHANGED <<cfg, evc, info, chatVars, storeVars>>

\* time passes: half an hour, an hour, a day
CacheTick ==
    /\ dual.ticks < MaxTicks
    /\ \E d \in {1800, 3600, 86400} :
        dual' = [dual EXCEPT !.now = @ + d, !.ticks = @ + 1]
    /\ call' = [op |-> "none", n |-> 0]
    /\ UNCHANGED <<cfg, evc, info, chatVars, storeVars>>

\* line 319: a lookup
CacheGet ==
    /\ \E q \in CacheQueries :
        call' = [op |-> "get_cached_search", n |-> 0, query |-> q,
                 out |-> get_cached_search(dual.search_cache, q, dual.now)]
    /\ UNCHANGED <<cfg, evc, info, chatVars, storeVars, dual>>

CacheNext == CachePut \/ CacheTick \/ CacheGet

SpecCache == CacheInit /\ [][CacheNext]_vars

\* --------------------------------- core_llm.py: one _call_cloud_api call
RECURSIVE cloud_requests(_, _)
\* the endpoints the loop of _call_cloud_api posts to, from endpoint i on:
\* it returns at the first answer with status 200 and content
cloud_requests(rs, i) ==
    IF i > Len(endpoint_urls) THEN <<>>
    ELSE IF rs[i].kind \in {"ok", "nontext"} THEN <<endpoint_urls[i]>>
    ELSE <<endpoint_urls[i]>> \o cloud_requests(rs, i + 1)

\* the answers of an endpoint: content (plain, or a JSON object inside other
\* text), empty content, another status, a timeout, content that is no text
CloudResponses ==
    { Resp("ok", <<"ok", "sp", "thx">>),
      Resp("ok", <<"w9", "sp", "{json}", "sp", "ok">>),
      Resp("empty", <<>>), Resp("status", <<>>), Resp("timeout", <<>>),
      Resp("nontext", <<>>) }

CloudInit ==
    /\ cfg = DefaultCfg
    /\ evc = EVCEngine(cfg)
    /\ info = [source |-> "none"]
    /\ call = [op |-> "none", n |-> 0]
    /\ llm \in {LLMCore("openai", "remote"), LLMCore("openai", "")}
    /\ mem = EmptyData
    /\ memFile = [kind |-> "missing"]
    /\ ss = [chat_log |-> <<>>, vals |-> <<>>, last_dE |-> 0, processing |-> FALSE]
    /\ pc = "idle"
    /\ loc = [u |-> <<>>]
    /\ turn = [n |-> 0, steps |-> <<>>]
    /\ StoreIdle /\ DualIdle

\* _call_cloud_api(prompt, system_prompt, mode); rs[i] answers request i
CloudCall ==
    /\ \E mode \in {"chat", "evc"}, r1, r2, r3 \in CloudResponses :
        call' = [op |-> "call_cloud_api", n |-> 0, mode |-> mode,
                 rs |-> <<r1, r2, r3>>,
                 out |-> call_cloud_api(llm, mode, <<r1, r2, r3>>),
                 requests |-> IF llm.base_url = "" THEN <<>>
                              ELSE cloud_requests(<<r1, r2, r3>>, 1)]
    /\ UNCHANGED <<cfg, evc, info, chatVars, storeVars, dual>>

SpecCloud == CloudInit /\ [][CloudCall]_vars

\* ---------------------------------------------------------------- C1
\* C1: with the initial E and K inside their ranges, after any sequence of
\* update_from_text and update_from_reflection calls E is within
\* [clamp_low, clamp_high] and K within [K_lo, K_hi]; in particular when the
\* engine starts at E_hi or E_lo and a perception update is followed by a
\* reflection update with the neutral vector.
C1_ClampInvariant ==
    /\ cfg.clamp_low <= evc.E /\ evc.E <= cfg.clamp_high
    /\ K_lo <= evc.K /\ evc.K <= K_hi

\* the engine started at E_hi, the perception update was clamped at E_hi, and
\* the neutral reflection update has run
C1_Witness ==
    /\ call.op = "reflection" /\ call.prev = "text" /\ call.n = 2
    /\ call.vec = NeutralVec
    /\ cfg.E_init = cfg.clamp_high
    /\ call.pre.E = cfg.clamp_high

\* ---------------------------------------------------------------- C2
\* the ordered list of (predicate, phase) pairs
PhaseRules(E, c) ==
    << E >= c.overheat_threshold, E <= c.fear_threshold,
       Abs(E - 5000) <= c.cooldown_margin, E > 5500, TRUE >>
PhaseLabels == <<"overheat", "fear", "cooldown", "focus", "calm">>
FirstMatch(E, c) ==
    PhaseLabels[CHOOSE i \in 1..5 :
        PhaseRules(E, c)[i] /\ \A j \in 1..(i - 1) : ~PhaseRules(E, c)[j]]
DefaultThresholds ==
    /\ cfg.overheat_threshold = DefaultCfg.overheat_threshold
    /\ cfg.fear_threshold = DefaultCfg.fear_threshold
    /\ cfg.cooldown_margin = DefaultCfg.cooldown_margin

\* C2: the phase an update reports is the label of the first rule, in the order
\* overheat, fear, cooldown, focus, calm, that E satisfies; with the default
\* thresholds 1.15 is overheat, 0.20 fear, 0.50 cooldown, 0.60 focus, 0.40 calm.
C2_PhasePriority ==
    info.source # "none" =>
        /\ info.phase = FirstMatch(info.E, cfg)
        /\ DefaultThresholds =>
            /\ info.E = 11500 => info.phase = "overheat"
            /\ info.E = 2000 => info.phase = "fear"
            /\ info.E = 5000 => info.phase = "cooldown"
            /\ info.E = 6000 => info.phase = "focus"
            /\ info.E = 4000 => info.phase = "calm"

\* an update under overlapping ranges reports fear for an E that also lies in
\* the cooldown band
C2_Witness ==
    /\ info.source # "none"
    /\ info.E <= cfg.fear_threshold
    /\ Abs(info.E - 5000) <= cfg.cooldown_margin
    /\ info.phase = "fear"

\* ---------------------------------------------------------------- C9
SaneField(f, default) ==
    IF f.k # "num" THEN Num(default) ELSE Num(clamp(f.v, 0, SC))
SaneVec(v) ==
    Vec(SaneField(v.coherence, 6000), SaneField(v.toxicity, 0),
        SaneField(v.satisfaction, 5000), SaneField(v.verbosity, 5000))

\* C9: update_from_reflection never raises; a missing or malformed field
\* counts as its neutral default, an out-of-range field is clamped, and the
\* update completes with E and K in bounds.
C9_ReflectionNeverRaises ==
    call.op = "reflection" =>
        /\ ~call.raised
        /\ evc = update_from_reflection(call.pre, cfg, SaneVec(call.vec)).eng
        /\ C1_ClampInvariant

\* ---------------------------------------------------------------- C3
Abandoned ==
    /\ pc = "idle" /\ turn.steps # <<>>
    /\ turn.steps[Len(turn.steps)] = "abandoned"

\* C3: a turn abandoned after its perception update and before its reflection
\* update leaves K and the stability accumulator at their pre-turn values, and
\* E differs from its pre-turn value by the clamped perception step only.
C3_AbandonedTurn ==
    Abandoned =>
        /\ evc.K = turn.pre.K
        /\ evc.stability = turn.pre.stability
        /\ evc.E = clamp(turn.pre.E + loc.info1.dE - cfg.loss,
                         cfg.clamp_low, cfg.clamp_high)

\* a turn was abandoned after a perception update that moved E
C3_Witness == Abandoned /\ evc.E # turn.pre.E /\ loc.info1.dE # 0

\* ---------------------------------------------------------------- C4
TurnOrder ==
    <<"perception", "prompt", "llm_call", "reflect", "reflection_update", "append">>
IsPrefix(a, b) == Len(a) <= Len(b) /\ SubSeq(b, 1, Len(a)) = a
StepsDone ==
    IF Abandoned THEN SubSeq(turn.steps, 1, Len(turn.steps) - 1) ELSE turn.steps

\* C4: the steps of a turn happen once each in the order perception update,
\* prompt construction (from the post-perception state), LLM call, reflection
\* scoring, reflection update, append; a completed turn has run all six, and
\* the log holds no more turns than have reached their append.
C4_TurnOrder ==
    /\ IsPrefix(StepsDone, TurnOrder)
    /\ pc = "finish" => turn.steps = TurnOrder
    /\ pc \in {"generate", "detect"} =>
        /\ loc.current_evc_state.E = loc.info1.E
        /\ loc.current_evc_state.E = evc.E
        /\ loc.current_evc_state.K = evc.K
    /\ Len(ss.chat_log) <= turn.n
    /\ (Len(ss.chat_log) = turn.n /\ turn.n > 0) =>
        (turn.steps = TurnOrder \/ turn.steps = <<>>)

\* a second turn has completed all its steps
C4_Witness == pc = "finish" /\ turn.n = 2 /\ turn.steps = TurnOrder /\ ~loc.failed

\* ---------------------------------------------------------------- C5
\* C5: when the LLM call of a turn fails, the turn is answered with the canned
\* reply and the reflection update of the turn is applied with the neutral
\* vector (0.6, 0, 0.5, 0.5).
C5_FailureUsesNeutralVector ==
    (pc \in {"save", "finish"} /\ loc.failed) =>
        /\ loc.answer = CannedApology
        /\ loc.rvec = NeutralVec
        /\ loc.info2.source = "reflection"

\* --------------------------------------------------------------- C10
Fresh(E, p) == p = phase(E, cfg)

\* C10: every phase label reported or stored with an E value (an update's
\* result, a turn's snapshot, the persisted Memory state, the state view of
\* the backend client including its initial default) is the classification
\* of that E.
C10_PhaseNeverStale ==
    /\ info.source # "none" => Fresh(info.E, info.phase)
    /\ \A i \in 1..Len(ss.vals) : Fresh(ss.vals[i].E, ss.vals[i].phase)
    /\ mem.kind = "doc" =>
        /\ mem.state.set => Fresh(mem.state.E, mem.state.phase)
        /\ \A i \in 1..Len(mem.turns) : Fresh(mem.turns[i].evc.E, mem.turns[i].evc.phase)
    /\ Fresh(llm.evc_state.E, llm.evc_state.phase)

\* ---------------------------------------------------------------- C7
LastN(q, n) == SubSeq(q, Len(q) - n + 1, Len(q))

\* C7: after any sequence of add_turn calls on a store of capacity N the
\* archive holds every turn ever appended, in call order, and the window is
\* the last min(N, archive length) turns of the archive.
C7_WindowIsSuffix ==
    /\ Len(cmem.full_history) = Len(added.c)
    /\ \A i \in 1..Len(added.c) :
        /\ cmem.full_history[i].speaker = added.c[i][1]
        /\ cmem.full_history[i].message = added.c[i][2]
        /\ cmem.full_history[i].response = added.c[i][3]
    /\ cmem.turns = LastN(cmem.full_history, Min(cmem.maxlen, Len(cmem.full_history)))
    /\ Len(amem.full_history) = Len(added.a)
    /\ \A i \in 1..Len(added.a) :
        /\ amem.full_history[i].user_query = added.a[i][1]
        /\ amem.full_history[i].ai_response = added.a[i][2]
    /\ amem.turns = LastN(amem.full_history, Min(amem.maxlen, Len(amem.full_history)))

\* N + 1 turns were appended to a store of capacity N = 2, the first evicted
C7_Witness ==
    /\ cmem.maxlen = 2 /\ Len(cmem.full_history) = 3
    /\ Len(cmem.turns) = 2
    /\ cmem.full_history[1] # cmem.full_history[2]
    /\ cmem.turns[1] = cmem.full_history[2]

\* ---------------------------------------------------------------- C6
\* C6: for every failure of the backend call, in chat and in analysis mode,
\* generate returns a text carrying the marker prefix and the caller records
\* a canned apology for the turn, never the raw failure text.
C6_FailureMarkedAndDetected ==
    dual.pc # "none" =>
        \A k \in 1..Len(dual.turns) :
            dual.turns[k].backend_failed =>
                /\ StartsWith(dual.turns[k].raw, MARK)
                /\ dual.turns[k].response = CannedPlayer(dual.turns[k].speaker)

\* ---------------------------------------------------------------- C8
\* C8: after any sequence of turns, failed turns included, the k-th recorded
\* turn carries ordinal k.
C8_OrdinalsGapFree ==
    /\ \A k \in 1..Len(amem.full_history) : amem.full_history[k].turn_number = k
    /\ dual.pc # "none" =>
        \A k \in 1..Len(dual.turns) : dual.turns[k].turn = k

\* --------------------------------------------------------------- C11
\* C11: within one chat session the engine is created once and carries its
\* state from turn to turn: nothing but update_from_text (the perception step)
\* and update_from_reflection (the reflection step) ever changes E, K or the
\* stability accumulator.
C11_EngineCreatedOnce ==
    [][evc' # evc => pc \in {"perceive", "update"}]_vars

\* --------------------------------------------------------------- C12
\* C12: update_from_text(text) sets E to
\* clamp(E + K*(0.25*sentiment + 0.35*volatility) - loss, E_lo, E_hi), leaves
\* K and the stability accumulator as they were, and returns the unclamped
\* delta K*(0.25*sentiment + 0.35*volatility) with the phase of the new E.
C12_PerceptionUpdate ==
    call.op = "text" =>
        LET d == Mul(call.pre.K, RDiv(25 * simple_sentiment(call.text)
                                      + 35 * volatility_hint(call.text), 100))
        IN  /\ evc.E = Max(cfg.clamp_low,
                           Min(cfg.clamp_high, call.pre.E + d - cfg.loss))
            /\ evc.K = call.pre.K
            /\ evc.stability = call.pre.stability
            /\ info.dE = d
            /\ info.phase = FirstMatch(evc.E, cfg)
            /\ info.E = evc.E

\* a perception update whose delta was cut by the clamp
C12_Witness ==
    /\ call.op = "text"
    /\ info.dE > 0
    /\ evc.E = cfg.clamp_high
    /\ evc.E - call.pre.E # info.dE - cfg.loss

\* --------------------------------------------------------------- C13
\* the vector of the last call has four numbers
NumericCall ==
    /\ call.op = "reflection"
    /\ \A f \in {call.vec.coherence, call.vec.toxicity,
                 call.vec.satisfaction, call.vec.verbosity} : f.k = "num"

\* the reflection rule with K clamped to [klo, khi]
ReflectionRule(klo, khi) ==
    NumericCall =>
        LET v == call.vec
            d == Mul(call.pre.K, RDiv(40 * v.toxicity.v + 5 * v.verbosity.v
                                      - 30 * v.coherence.v - 20 * v.satisfaction.v, 100))
            E_new == Max(cfg.clamp_low,
                         Min(cfg.clamp_high, call.pre.E + d - RDiv(cfg.loss, 2)))
            st == RDiv(8 * call.pre.stability
                       + 2 * (SC - Min(SC, Abs(E_new - 5000))), 10)
            K_new == Max(klo, Min(khi, Mul(call.pre.K, 9800 + RDiv(4 * st, 100))))
        IN  /\ ~call.raised
            /\ evc.E = E_new
            /\ evc.stability = st
            /\ evc.K = K_new
            /\ 0 <= evc.stability /\ evc.stability <= SC

\* C13 as stated: update_from_reflection(v) sets
\* E_new = clamp(E + K_old*(-0.3*coh + 0.4*tox - 0.2*sat + 0.05*verb) - 0.5*loss),
\* stability = 0.8*stability + 0.2*(1 - min(1, |E_new - 0.5|)) and
\* K_new = clamp(K_old*(0.98 + 0.04*stability), K_lo, K_hi) with K_lo, K_hi the
\* K bounds of the configuration; stability stays within [0, 1].
C13_ConfiguredKBounds == ReflectionRule(cfg.K_low, cfg.K_high)

\* C13 amended: the same rule with K clamped to the fixed range [0.25, 0.75],
\* whatever the configuration declares.
C13_FixedKBounds == ReflectionRule(25 * 100, 75 * 100)

\* a reflection update that moved E, the stability accumulator and K, under a
\* configuration declaring another K range than [0.25, 0.75]
C13_Witness ==
    /\ NumericCall
    /\ cfg.K_high # 75 * 100
    /\ evc.E # call.pre.E
    /\ evc.stability # call.pre.stability
    /\ evc.K > cfg.K_high

\* --------------------------------------------------------------- C14
\* a reflection update has completed
Reflected == call.op = "reflection" /\ ~call.raised

\* C14 as stated: a reflection update whose E_new is at the neutral point 0.5
\* never increases K, and one whose E_new is at an extreme
\* (|E_new - 0.5| >= 1) never decreases K.
C14_DampensNearBaseline ==
    Reflected =>
        /\ evc.E = 5000 => evc.K <= call.pre.K
        /\ Abs(evc.E - 5000) >= SC => evc.K >= call.pre.K

\* C14 amended: the drift goes the other way.  A reflection update whose E_new
\* is at the neutral point never decreases K when the stability accumulator
\* before it is at least 0.375 (a fresh engine has 0.5, and a run at the
\* neutral point keeps it above 0.5); one whose E_new is at an extreme never
\* increases K when the accumulator before it is at most 0.625.
C14_AmplifiesNearBaseline ==
    Reflected =>
        /\ (evc.E = 5000 /\ call.pre.stability >= 3750) =>
            /\ evc.K >= call.pre.K
            /\ evc.stability >= 5000
        /\ (Abs(evc.E - 5000) >= SC /\ call.pre.stability <= 6250) =>
            /\ evc.K <= call.pre.K
            /\ evc.stability <= 5000

\* the second reflection update of a run at the neutral point raised K
C14_Witness ==
    /\ Reflected /\ call.prev = "reflection"
    /\ call.pre.E = 5000 /\ evc.E = 5000
    /\ evc.K > call.pre.K

\* --------------------------------------------------------------- C15
\* the lexicon words of a set that occur in the lowercased text
Hits(words, text) == Cardinality({w \in words : Contains(Lower(text), w)})

\* C15: for every text simple_sentiment is within [-1, 1] and equals
\* (pos - neg)/(pos + neg) over the numbers of positive and negative lexicon
\* words contained in the lowercased text: exactly 0 without a match, exactly
\* 1 with positive matches only, exactly -1 with negative matches only.
C15_SentimentValue ==
    (call.op = "score" /\ call.arg.t = "str") =>
        LET pos == Hits(POS_WORDS, call.arg.s)
            neg == Hits(NEG_WORDS, call.arg.s)
            s == call.out.sent
        IN  /\ ~call.out.raised
            /\ 0 - SC <= s /\ s <= SC
            /\ (pos = 0 /\ neg = 0) => s = 0
            /\ (pos > 0 /\ neg = 0) => s = SC
            /\ (pos = 0 /\ neg > 0) => s = 0 - SC
            /\ pos + neg > 0 => s = RDiv((pos - neg) * SC, pos + neg)

\* a text with one positive word and two negative words scored -1/3
C15_Witness ==
    /\ call.op = "score" /\ call.arg.t = "str"
    /\ Hits(POS_WORDS, call.arg.s) = 1 /\ Hits(NEG_WORDS, call.arg.s) = 2
    /\ call.out.sent = 0 - 3333

\* --------------------------------------------------------------- C16
\* C16: the scorers treat an argument that is no text as the empty text:
\* simple_sentiment and volatility_hint return 0 without raising, and a
\* perception update on such an argument changes E by the decay loss only.
C16_NonTextIsEmptyText ==
    /\ (call.op = "score" /\ call.arg.t # "str") =>
        /\ ~call.out.raised
        /\ call.out.sent = 0
        /\ call.out.vol = 0
    /\ (call.op = "perceive" /\ call.arg.t # "str") =>
        /\ ~call.raised
        /\ evc = [call.pre EXCEPT !.E = clamp(call.pre.E - cfg.loss,
                                              cfg.clamp_low, cfg.clamp_high)]

\* --------------------------------------------------------------- C17
\* C17: reflect is deterministic and free of side effects: two evaluations on
\* the same pair of texts return the same vector, which has the four fields
\* coherence, toxicity, satisfaction, verbosity, each within [0, 1], toxicity
\* being 0 or 1.
C17_ReflectVector ==
    call.op = "reflect" =>
        \A i \in 1..Len(call.out) :
            LET v == call.out[i] IN
            /\ v = call.out[1]
            /\ DOMAIN v = {"coherence", "toxicity", "satisfaction", "verbosity"}
            /\ \A f \in DOMAIN v : v[f].k = "num" /\ 0 <= v[f].v /\ v[f].v <= SC
            /\ v.toxicity.v \in {0, SC}

\* two evaluations on a long toxic answer: coherence and verbosity are cut at 1
C17_Witness ==
    /\ call.op = "reflect" /\ Len(call.out) = 2
    /\ CharLen(call.a) > 800
    /\ call.out[2].toxicity.v = SC
    /\ call.out[2].coherence.v = SC
    /\ call.out[2].verbosity.v = SC

\* --------------------------------------------------------------- C18
\* the window of the store the last read was made on
ReadWindow == IF call.store = "c" THEN cmem.turns ELSE amem.turns

\* C18: for every store state and every count n >= 0, get_context(n) renders
\* the last min(n, number of turns in the window) turns of the window, in
\* append order, and no turn that left the window.
C18_ContextIsLastN ==
    call.op = "get_context" =>
        LET want == LastN(ReadWindow, Min(call.n, Len(ReadWindow)))
        IN  /\ Len(call.out) = Len(want)
            /\ \A i \in 1..Len(want) :
                IF call.store = "c"
                THEN /\ call.out[i].speaker = want[i].speaker
                     /\ call.out[i].query = want[i].message
                     /\ call.out[i].response = want[i].response
                ELSE /\ call.out[i].number = want[i].turn_number
                     /\ call.out[i].user = want[i].user_query
                     /\ call.out[i].assistant = want[i].ai_response

\* --------------------------------------------------------------- C20
\* the archive of the store the last read was made on
ReadArchive == IF call.store = "c" THEN cmem.full_history ELSE amem.full_history

\* C20: every conversation export is a document {total_turns, history} whose
\* history is the full archive, every turn ever appended in order, evicted
\* turns included, and whose total_turns is the length of history.
C20_ExportIsArchiveDocument ==
    call.op = "export" =>
        /\ call.out.kind = "object"
        /\ DOMAIN call.out = {"kind", "total_turns", "history"}
        /\ call.out.history = ReadArchive
        /\ call.out.total_turns = Len(call.out.history)
        /\ Len(call.out.history) =
             Len(IF call.store = "c" THEN added.c ELSE added.a)

\* --------------------------------------------------------------- C19
\* the archived turn holds the keyword, compared without regard to case
Matches(t, keyword) ==
    \/ Contains(Lower(t.message), Lower(keyword))
    \/ Contains(Lower(t.response), Lower(keyword))
\* the places in the archive of the matches with fewer than five later matches
Recent5(h, keyword) ==
    LET hits == {i \in 1..Len(h) : Matches(h[i], keyword)}
    IN  {i \in hits : Cardinality({j \in hits : j > i}) < 5}

\* C19: search_related(keyword) returns, in archive order, the at most five
\* most recent archived turns whose message or response holds the keyword
\* without regard to case, and leaves the store as it was.
C19_SearchRecentMatches ==
    call.op = "search_related" =>
        LET top == Recent5(call.pre.full_history, call.keyword)
        IN  /\ Len(call.out) = Cardinality(top)
            /\ \A k \in 1..Len(call.out) :
                call.out[k] = call.pre.full_history[
                    CHOOSE i \in top : Cardinality({j \in top : j < i}) = k - 1]
            /\ cmem = call.pre

\* six turns of the archive match through a difference of case or through the
\* response, a non-matching turn lies between them, and the oldest match is
\* left out
C19_Witness ==
    /\ call.op = "search_related" /\ call.keyword = <<"OK">>
    /\ Len(call.out) = 5
    /\ Matches(cmem.full_history[1], call.keyword)
    /\ call.out[1] # call.out[2]
    /\ \E i \in 2..Len(cmem.full_history) : ~Matches(cmem.full_history[i], call.keyword)
    /\ Cardinality({i \in 1..Len(cmem.full_history) :
                      Matches(cmem.full_history[i], call.keyword)}) = 6


\* C21: resuming from a persisted file that is missing, unreadable or of any
\* content other than a document of the expected structure never fails: the
\* store in memory is a document (it starts empty) and every save_turn that
\* has run has its turn in memory.
C21_ResumeNeverFails ==
    /\ mem.kind = "doc"
    /\ (pc = "finish" => Len(mem.turns) >= 1)


\* --------------------------------------------------------------- C22
\* C22: for every configuration document with any subset of keys absent
\* (an absent or empty evc section or tone map included), constructing an
\* engine, resetting a player and looking up the tone complete without
\* raising and use the documented defaults for what is absent.
C22_AbsentKeysUseDefaults ==
    /\ (call.op = "none" =>
            \A k \in CfgKeys \ cfg.keys : engine_cfg(cfg)[k] = DefaultCfg[k])
    /\ (call.op = "reset" =>
            /\ ~call.raised
            /\ evc.E = engine_cfg(cfg).E_init
            /\ evc.K = engine_cfg(cfg).K)
    /\ (call.op = "tone" =>
            /\ ~call.raised
            /\ (cfg.tone_map \in {<<>>, << {} >>} => call.out = DefaultTone))

\* --------------------------------------------------------------- C30
\* C30: after AIPlayer.reset the player is equivalent to a freshly
\* constructed player for the same configuration: its logs are empty and its
\* engine has the initial E, the initial K and the initial stability
\* accumulator.
C30_ResetIsFresh ==
    (call.op = "reset" /\ ~call.raised) =>
        /\ dual.player = AIPlayer
        /\ evc = EVCEngine(engine_cfg(cfg))


\* --------------------------------------------------------------- C23
\* the largest slice bound of the prompt builders (enhanced_dual_ai.py:439)
FieldCap == 300

\* C23: every field rendered into a prompt payload from stored turns or from
\* the new query is truncated to a fixed cap: no section of a prompt that
\* build_context_prompt built holds a text longer than the largest cap.
C23_FieldsAreCapped ==
    call.op = "generate_with_context" =>
        \A i \in 1..Len(call.prompt) : CharLen(call.prompt[i].text) <= FieldCap

\* --------------------------------------------------------------- C24
\* the sections of a prompt
Sections(p) == {p[i] : i \in 1..Len(p)}

\* the system message a chat-mode call with the same arguments sends from
\* the same client
ChatModeContext ==
    build_evc_system_prompt(
        llm,
        build_context_prompt(call.history, Len(call.history) + 1, "Assistant",
                             call.query,
                             IF call.state = <<>>
                             THEN [E |-> 5000, K |-> 4500, phase |-> "calm"]
                             ELSE call.state[1],
                             "chat"),
        "chat")

\* C24: in analysis mode the directive is appended, not substituted: the
\* system message sent in analysis mode holds every section the chat-mode
\* message for the same inputs holds, and a directive.
C24_DirectiveIsAppended ==
    (call.op = "generate_with_context" /\ call.mode = "evc" /\ call.sent # <<>>) =>
        /\ Sections(ChatModeContext) \subseteq Sections(call.sent[1])
        /\ \E s \in Sections(call.sent[1]) : s.tag \in {"task_json", "mode_evc"}

\* --------------------------------------------------------------- C26
\* C26: the engine state rendered into the system prompt of a generate call
\* is determined by the call's own arguments: a call made without a state
\* argument renders the default state, never one an earlier call left.
C26_NoStateRendersDefault ==
    (call.op = "generate" /\ call.sent # <<>>) =>
        evc_info_block(LLMCore("", "").evc_state) \in Sections(call.sent[1])


\* --------------------------------------------------------------- C25
\* C25: a failed save or export during a turn never changes the
\* conversation: once a turn is recorded, the next turn receives the
\* recorded response as its prompt, whether or not the backup export of
\* the turn could be written.
C25_PersistenceFailureChangesNothing ==
    (/\ dual.pc = "loop"
     /\ dual.turns # <<>>
     /\ dual.turns[Len(dual.turns)].turn = dual.turn_idx) =>
        dual.current_prompt = dual.turns[Len(dual.turns)].response

\* --------------------------------------------------------------- C28
\* C28: the recorded turns of a dual-AI episode form an unbroken chain even
\* when some turns fail: consecutive recorded turns have different
\* speakers, the first recorded prompt is the topic prompt, each later
\* recorded prompt is the response of the turn recorded before it, the
\* attempts never exceed max_turns, and summary.total_turns is the number of
\* recorded turns.
C28_UnbrokenChain ==
    dual.pc \in {"loop", "done"} =>
        /\ \A i \in 1..(Len(dual.turns) - 1) :
            /\ dual.turns[i].speaker # dual.turns[i + 1].speaker
            /\ dual.turns[i + 1].prompt = dual.turns[i].response
        /\ (dual.turns # <<>> => dual.turns[1].prompt = TopicPrompt)
        /\ dual.turn_idx <= dual.max_turns
        /\ (dual.pc = "done" => dual.summary.total_turns = Len(dual.turns))


\* --------------------------------------------------------------- C27
\* C27: get_cached_search(query) returns the cached results only when an
\* entry for the lowercased query exists and was stored less than one hour
\* before the lookup; for an entry of any greater age it returns None.
C27_CacheFreshWithinHour ==
    call.op = "get_cached_search" =>
        LET e == dual.search_cache[Lower(call.query)] IN
        call.out = IF e # <<>> /\ dual.now - e[1].timestamp < 3600
                   THEN <<e[1].results>> ELSE <<>>


\* --------------------------------------------------------------- C29
\* the attempts answered with status 200 and non-empty content
Answered(rs) == {i \in 1..Len(rs) : rs[i].kind \in {"ok", "nontext"}}
FirstAnswered(rs) == CHOOSE i \in Answered(rs) : \A j \in Answered(rs) : i <= j

\* the order of the attempts, the stop at the first answer, and the
\* fallback exactly when no attempt answered
CloudAttempts ==
    IF llm.base_url = "" THEN call.requests = <<>>
    ELSE IF Answered(call.rs) = {} THEN call.requests = endpoint_urls
    ELSE call.requests = SubSeq(endpoint_urls, 1, FirstAnswered(call.rs))

\* C29 as stated: what is returned is the content of the first answered
\* attempt, in either mode.
C29_ReturnsFirstContent ==
    call.op = "call_cloud_api" =>
        /\ CloudAttempts
        /\ IF llm.base_url = "" \/ Answered(call.rs) = {}
           THEN call.out = fallback_response(llm, call.mode)
           ELSE LET r == call.rs[FirstAnswered(call.rs)] IN
                call.out = IF r.kind = "nontext" THEN NonStr ELSE Str(r.content)

\* C29: _call_cloud_api tries /v1/chat/completions, /chat/completions,
\* /api/chat in that order, sends no request after the first attempt answered
\* with status 200 and non-empty content, and returns the fallback exactly
\* when no attempt was; what it returns for an answered attempt is the
\* content in chat mode, and in analysis mode the first JSON object found in
\* the content, or the content when it holds none.
C29_FirstAnswerOrFallback ==
    call.op = "call_cloud_api" =>
        /\ CloudAttempts
        /\ IF llm.base_url = "" \/ Answered(call.rs) = {}
           THEN call.out = fallback_response(llm, call.mode)
           ELSE LET r == call.rs[FirstAnswered(call.rs)] IN
                call.out = IF r.kind = "nontext" THEN NonStr
                           ELSE IF call.mode = "evc" /\ Contains(r.content, <<"{json}">>)
                           THEN Str(<<"{json}">>)
                           ELSE Str(r.content)

\* two attempts failed (another status, empty content) and the third was
\* answered, in analysis mode, with a JSON object inside other text
C29_Witness ==
    /\ call.op = "call_cloud_api" /\ call.mode = "evc"
    /\ llm.base_url # ""
    /\ call.rs[1].kind = "status" /\ call.rs[2].kind = "empty"
    /\ call.rs[3] = Resp("ok", <<"w9", "sp", "{json}", "sp", "ok">>)
    /\ call.requests = endpoint_urls
    /\ call.out = Str(<<"{json}">>)

====
